---- MODULE Spec2Model ----
(***************************************************************************)
(* Device connection registry and command delivery/queuing protocol of the *)
(* relay server (server/app/services/device_manager.py, command_queue.py,  *)
(* websocket.py, db/crud.py).                                              *)
(*                                                                         *)
(* The registry is the in-memory DeviceManager singleton; the command log  *)
(* is the durable commands table; the event handlers are coroutines that   *)
(* interleave at their await points (durable-store operations and          *)
(* transport emits).                                                       *)
(***************************************************************************)
EXTENDS Integers, Sequences, FiniteSets, TLC

\* ------------------------------------------------------------------ bounds
\* the commands created
MaxCommands == 2
\* the instants of the clock
MaxClock == 2
\* the instants a pairing code stays valid (settings.pairing_code_expire_minutes)
pairing_code_expire_minutes == 1

\* ------------------------------------------------------------- value sets
DeviceIds == {"d1", "d2"}
ControllerIds == {"c1", "c2"}
Sockets == {"h1", "h2"}
None == "None"
NULL == 0

\* CommandStatusEnum
PENDING == "pending"
QUEUED == "queued"
DELIVERED == "delivered"
EXECUTING == "executing"
COMPLETED == "completed"
FAILED == "failed"
CommandStatusEnum == {PENDING, QUEUED, DELIVERED, EXECUTING, COMPLETED, FAILED}

\* CommandAction: the command vocabulary
CommandAction == {"start_camera", "stop_camera", "switch_camera", "start_audio",
                  "stop_audio", "capture_photo", "start_recording", "stop_recording",
                  "get_location", "get_status", "set_sound_threshold",
                  "enable_sound_detection", "disable_sound_detection"}

\* values of the "status" field of a device:command_ack payload
AckStatuses == {"completed", "failed", "executing"}
\* values of the "error" field of a device:command_ack payload (None: absent)
AckErrors == {None, "", "denied"}

\* DeviceStatusUpdate payloads, named by the flag that is set in them: the
\* registry copies camera_active and audio_active out of the snapshot (battery,
\* network and the other fields are left out).
StatusUpdates == {"camera_on", "audio_on"}
camera_active(status) == status = "camera_on"
audio_active(status) == status = "audio_on"
\* DeviceStatusEnum
ONLINE == "online"
OFFLINE == "offline"
\* the auth argument of connect: absent, a token that does not decode, a valid one
Auths == {None, "invalid", "valid"}

VARIABLES
    devices,              \* DeviceManager._devices: device id -> ConnectedDevice
    socket_to_device,     \* DeviceManager._socket_to_device: socket id -> device id
    controllers,          \* DeviceManager._controllers: controller id -> ConnectedController
    socket_to_controller, \* DeviceManager._socket_to_controller: socket id -> controller id
    ret,                  \* the last registry call made directly and what it returned
    connected,            \* the open transport connections (socket ids)
    refused,              \* the socket ids whose last connect attempt was refused
    rooms,                \* socket id -> the device ids whose room "device:<id>" it is in
    controller_rooms,     \* socket id -> the device ids whose room "controllers:<id>" it is in
    device_rows,          \* the devices table: device id -> its status and current_status
    commands,             \* the commands table, in creation order (id = position)
    now,                  \* the wall clock read by datetime.utcnow()
    emitted,              \* the controller:command events sent so far, in order
    reg,                  \* socket id -> the handle_device_register invocation of that connection
    cmd,                  \* the handle_controller_command invocation in flight
    push_tokens,          \* the devices table: device id -> its push_token
    pushed,               \* the notifications handed to the push service
    pairing_codes,        \* the pairing_codes table: code -> its row
    pair,                 \* the POST /register requests, each through its steps
    raised,               \* the event handlers an exception has left
    payload               \* socket id -> the token payload its connect handler decoded

registry == <<devices, socket_to_device, controllers, socket_to_controller>>
handlers == <<reg, cmd>>
relay == <<controller_rooms, device_rows>>
routes == <<push_tokens, pushed, pairing_codes, pair>>
vars == <<devices, socket_to_device, controllers, socket_to_controller, ret,
          connected, refused, rooms, controller_rooms, device_rows, commands, now,
          emitted, reg, cmd, push_tokens, pushed, pairing_codes, pair, raised,
          payload>>

\* ------------------------------------------------------------ dict helpers
\* d[k] = v on a Python dict
DictSet(d, k, v) == [x \in DOMAIN d \cup {k} |-> IF x = k THEN v ELSE d[x]]
\* d.pop(k, None), the dict that is left
DictPop(d, k) == [x \in DOMAIN d \ {k} |-> d[x]]
\* d.get(k), with `none` for a missing key
DictGet(d, k, none) == IF k \in DOMAIN d THEN d[k] ELSE none
EmptyDict == [x \in {} |-> None]

\* ----------------------------------------------------------- DeviceManager
ConnectedDevice(device_id, socket_id) ==
    [device_id |-> device_id, socket_id |-> socket_id, connected_at |-> now,
     last_heartbeat |-> now, status |-> None, camera_active |-> FALSE,
     audio_active |-> FALSE]
NoDevice == [device_id |-> None, socket_id |-> None, connected_at |-> NULL,
             last_heartbeat |-> NULL, status |-> None, camera_active |-> FALSE,
             audio_active |-> FALSE]

ConnectedController(controller_id, socket_id, target_device_id) ==
    [controller_id |-> controller_id, socket_id |-> socket_id,
     target_device_id |-> target_device_id, connected_at |-> now]
NoController == [controller_id |-> None, socket_id |-> None,
                 target_device_id |-> None, connected_at |-> NULL]

\* The registry a call leaves behind, and what the call returns.
Registry(d, s2d, c, s2c, result) ==
    [devices |-> d, socket_to_device |-> s2d, controllers |-> c,
     socket_to_controller |-> s2c, result |-> result]

\* register_device that keeps the session a device already has
register_device_keeps_first(device_id, socket_id) ==
    Registry(IF device_id \in DOMAIN devices THEN devices
             ELSE DictSet(devices, device_id, ConnectedDevice(device_id, socket_id)),
             DictSet(socket_to_device, socket_id, device_id),
             controllers, socket_to_controller, device_id)

register_device(device_id, socket_id) ==
    Registry(DictSet(devices, device_id, ConnectedDevice(device_id, socket_id)),
             DictSet(socket_to_device, socket_id, device_id),
             controllers, socket_to_controller, device_id)

\* unregister_device that drops the reverse index and keeps the session
unregister_device_keeps_session(socket_id) ==
    Registry(devices, DictPop(socket_to_device, socket_id),
             controllers, socket_to_controller,
             DictGet(socket_to_device, socket_id, None))

\* unregister_device that empties the sessions when the handle is unknown
unregister_device_clears(socket_id) ==
    LET device_id == DictGet(socket_to_device, socket_id, None) IN
    IF device_id # None
    THEN Registry(DictPop(devices, device_id), DictPop(socket_to_device, socket_id),
                  controllers, socket_to_controller, device_id)
    ELSE Registry(EmptyDict, socket_to_device, controllers, socket_to_controller, None)

unregister_device(socket_id) ==
    LET device_id == DictGet(socket_to_device, socket_id, None) IN
    IF device_id # None
    THEN Registry(DictPop(devices, device_id), DictPop(socket_to_device, socket_id),
                  controllers, socket_to_controller, device_id)
    ELSE Registry(devices, DictPop(socket_to_device, socket_id),
                  controllers, socket_to_controller, None)

get_device(device_id) == DictGet(devices, device_id, NoDevice)

get_device_by_socket(socket_id) ==
    LET device_id == DictGet(socket_to_device, socket_id, None) IN
    IF device_id # None THEN DictGet(devices, device_id, NoDevice) ELSE NoDevice

is_device_online(device_id) == device_id \in DOMAIN devices

update_device_status(device_id, status) ==
    IF device_id \in DOMAIN devices
    THEN Registry([devices EXCEPT ![device_id] =
                      [@ EXCEPT !.status = status,
                                !.last_heartbeat = now,
                                !.camera_active = camera_active(status),
                                !.audio_active = audio_active(status)]],
                  socket_to_device, controllers, socket_to_controller, None)
    ELSE Registry(devices, socket_to_device, controllers, socket_to_controller, None)

\* update_heartbeat that creates the session of a device that has none
update_heartbeat_upsert(device_id) ==
    Registry(DictSet(devices, device_id,
                     [DictGet(devices, device_id, ConnectedDevice(device_id, None))
                         EXCEPT !.last_heartbeat = now]),
             socket_to_device, controllers, socket_to_controller, None)

update_heartbeat(device_id) ==
    IF device_id \in DOMAIN devices
    THEN Registry([devices EXCEPT ![device_id] = [@ EXCEPT !.last_heartbeat = now]],
                  socket_to_device, controllers, socket_to_controller, None)
    ELSE Registry(devices, socket_to_device, controllers, socket_to_controller, None)

get_device_socket_id(device_id) ==
    LET device == DictGet(devices, device_id, NoDevice) IN
    IF device # NoDevice THEN device.socket_id ELSE None

register_controller(controller_id, socket_id, target_device_id) ==
    Registry(devices, socket_to_device,
             DictSet(controllers, controller_id,
                     ConnectedController(controller_id, socket_id, target_device_id)),
             DictSet(socket_to_controller, socket_id, controller_id), controller_id)

unregister_controller(socket_id) ==
    LET controller_id == DictGet(socket_to_controller, socket_id, None) IN
    IF controller_id # None
    THEN Registry(devices, socket_to_device, DictPop(controllers, controller_id),
                  DictPop(socket_to_controller, socket_id), controller_id)
    ELSE Registry(devices, socket_to_device, controllers,
                  DictPop(socket_to_controller, socket_id), None)

get_controller(controller_id) == DictGet(controllers, controller_id, NoController)

get_controller_by_socket(socket_id) ==
    LET controller_id == DictGet(socket_to_controller, socket_id, None) IN
    IF controller_id # None
    THEN DictGet(controllers, controller_id, NoController) ELSE NoController

\* The sessions of the controllers that watch a device.
get_controllers_for_device(device_id) ==
    {controllers[c] : c \in {x \in DOMAIN controllers :
                                controllers[x].target_device_id = device_id}}

\* The registry after a call.
SetRegistry(r) ==
    /\ devices' = r.devices
    /\ socket_to_device' = r.socket_to_device
    /\ controllers' = r.controllers
    /\ socket_to_controller' = r.socket_to_controller

\* ------------------------------------------------------------ db/crud.py
\* A row of the commands table. created_at is the instant of the insert; the
\* rows are inserted one at a time, so it is the row's creation sequence number.
\* The payload (action, params) is left out.
Command(id, device_id, status) ==
    [id |-> id, device_id |-> device_id, status |-> status, created_at |-> id,
     delivered_at |-> NULL, completed_at |-> NULL, error |-> None]

create_command(device_id, status) ==
    Append(commands, Command(Len(commands) + 1, device_id, status))

\* The row with this id, as a set: empty when there is none.
get_command(command_id) ==
    {commands[i] : i \in {j \in 1..Len(commands) : commands[j].id = command_id}}

\* ORDER BY created_at DESC
RECURSIVE order_by_created_at_desc(_)
order_by_created_at_desc(rows) ==
    IF rows = {} THEN <<>>
    ELSE LET first == CHOOSE r \in rows : \A q \in rows : r.created_at >= q.created_at
         IN <<first>> \o order_by_created_at_desc(rows \ {first})

\* ORDER BY created_at: the rows of a set, earliest first.
RECURSIVE order_by_created_at(_)
order_by_created_at(rows) ==
    IF rows = {} THEN <<>>
    ELSE LET first == CHOOSE r \in rows : \A q \in rows : r.created_at <= q.created_at
         IN <<first>> \o order_by_created_at(rows \ {first})

\* get_pending_commands without the device filter
get_pending_commands_any_device(device_id) ==
    order_by_created_at({commands[i] : i \in {j \in 1..Len(commands) :
        commands[j].status \in {PENDING, QUEUED}}})

get_pending_commands(device_id) ==
    order_by_created_at({commands[i] : i \in {j \in 1..Len(commands) :
        /\ commands[j].device_id = device_id
        /\ commands[j].status \in {PENDING, QUEUED}}})

\* Python truthiness of an Optional[str]
Truthy(s) == s # None /\ s # ""

\* The commands table after UPDATE commands SET ... WHERE id = command_id.
update_command_status(table, command_id, status, error) ==
    [i \in 1..Len(table) |->
        IF table[i].id # command_id THEN table[i]
        ELSE [table[i] EXCEPT
                !.status = status,
                !.delivered_at = IF status = DELIVERED THEN now ELSE @,
                !.completed_at = IF status \in {COMPLETED, FAILED} THEN now ELSE @,
                !.error = IF Truthy(error) THEN error ELSE @]]

\* ------------------------------------------------- services/command_queue.py
mark_delivered(table, command_id) ==
    update_command_status(table, command_id, DELIVERED, None)

\* mark_completed that ignores the error when it picks the status
mark_completed_as_success(table, command_id, error) ==
    update_command_status(table, command_id, COMPLETED, error)

mark_completed(table, command_id, error) ==
    LET status == IF Truthy(error) THEN FAILED ELSE COMPLETED
    IN update_command_status(table, command_id, status, error)

\* The 1-based position, NULL for None.
RECURSIVE enumerate_find(_, _, _)
enumerate_find(pending, i, command_id) ==
    IF i > Len(pending) THEN NULL
    ELSE IF pending[i].id = command_id THEN i
    ELSE enumerate_find(pending, i + 1, command_id)

get_queue_position(command_id) ==
    LET found == get_command(command_id) IN
    IF found = {} THEN NULL
    ELSE LET command == CHOOSE c \in found : TRUE IN
         IF command.status \notin {PENDING, QUEUED} THEN NULL
         ELSE enumerate_find(get_pending_commands(command.device_id), 1, command_id)

\* deliver_queued_commands whose loop stops after the first row
deliver_queued_commands_first_only(table, batch) ==
    IF batch = <<>> THEN table
    ELSE update_command_status(table, Head(batch), DELIVERED, None)

\* The loop of deliver_queued_commands over the rows it read: the table after
\* every one of them was updated to delivered.
RECURSIVE deliver_queued_commands(_, _)
deliver_queued_commands(table, batch) ==
    IF batch = <<>> THEN table
    ELSE deliver_queued_commands(
            update_command_status(table, Head(batch), DELIVERED, None), Tail(batch))

\* ----------------------------------------------------- routes of the ack
\* handle_command_ack: the table after the acknowledgment's update.
command_ack(command_id, status, error) ==
    IF status = "completed" THEN mark_completed(commands, command_id, None)
    ELSE IF status = "failed" THEN mark_completed(commands, command_id, error)
    ELSE commands

\* queue_command with the two statuses swapped
initial_status_swapped(is_online) == IF is_online THEN QUEUED ELSE DELIVERED

\* queue_command's choice of the initial status
initial_status(is_online) == IF is_online THEN DELIVERED ELSE QUEUED

\* A row of the devices table: every device id is a paired device. last_seen
\* and the columns no handler writes are left out.
DeviceRow(status, current_status) ==
    [status |-> status, current_status |-> current_status]

\* crud.update_device_status: UPDATE devices SET status, [current_status] WHERE id
update_device_row(device_id, status, current_status) ==
    [device_rows EXCEPT ![device_id] =
        DeviceRow(status, IF current_status # None THEN current_status
                          ELSE @.current_status)]

\* ------------------------------------------------------------------- Init
RegIdle == [pc |-> "idle", device_id |-> None, batch |-> <<>>, i |-> 0, base |-> 0]
CmdIdle == [pc |-> "idle", device_id |-> None, is_online |-> FALSE, id |-> NULL]
NoCall == [op |-> None, arg |-> None, result |-> None]
\* JWTPayload: the subject and client type a token carries (iat and exp are
\* left out), and the absence of a payload.
JWTPayload(sub, type) == [sub |-> sub, type |-> type]
NoPayload == [sub |-> None, type |-> None]
\* The POST /register requests of the model, and one that has not arrived.
Requests == {"r1", "r2"}
PairIdle == [pc |-> "idle", pairing_code |-> None, device_id |-> None]

Init ==
    /\ devices = EmptyDict
    /\ socket_to_device = EmptyDict
    /\ controllers = EmptyDict
    /\ socket_to_controller = EmptyDict
    /\ ret = NoCall
    /\ connected = {}
    /\ refused = {}
    /\ rooms = [s \in Sockets |-> {}]
    /\ controller_rooms = [s \in Sockets |-> {}]
    /\ device_rows = [d \in DeviceIds |-> DeviceRow(OFFLINE, None)]
    /\ commands = <<>>
    /\ now = 1
    /\ emitted = <<>>
    /\ reg = [s \in Sockets |-> RegIdle]
    /\ cmd = CmdIdle
    /\ push_tokens = [d \in DeviceIds |-> None]
    /\ pushed = {}
    /\ pairing_codes = EmptyDict
    /\ pair = [r \in Requests |-> PairIdle]
    /\ raised = {}
    /\ payload = [s \in Sockets |-> NoPayload]

\* No handler invocation is in flight.
Quiescent ==
    /\ \A s \in Sockets : reg[s].pc = "idle"
    /\ cmd.pc = "idle"

\* ------------------------------------------------- direct registry calls
RegisterDevice(device_id, socket_id) ==
    /\ SetRegistry(register_device(device_id, socket_id))
    /\ ret' = [op |-> "register_device", arg |-> socket_id,
               result |-> register_device(device_id, socket_id).result]
    /\ UNCHANGED <<connected, refused, rooms, relay, commands, routes, raised, payload, now, emitted, handlers>>

UnregisterDevice(socket_id) ==
    /\ SetRegistry(unregister_device(socket_id))
    /\ ret' = [op |-> "unregister_device", arg |-> socket_id,
               result |-> unregister_device(socket_id).result]
    /\ UNCHANGED <<connected, refused, rooms, relay, commands, routes, raised, payload, now, emitted, handlers>>

RegisterController(controller_id, socket_id, target_device_id) ==
    /\ SetRegistry(register_controller(controller_id, socket_id, target_device_id))
    /\ ret' = [op |-> "register_controller", arg |-> socket_id,
               result |-> register_controller(controller_id, socket_id,
                                              target_device_id).result]
    /\ UNCHANGED <<connected, refused, rooms, relay, commands, routes, raised, payload, now, emitted, handlers>>

UnregisterController(socket_id) ==
    /\ SetRegistry(unregister_controller(socket_id))
    /\ ret' = [op |-> "unregister_controller", arg |-> socket_id,
               result |-> unregister_controller(socket_id).result]
    /\ UNCHANGED <<connected, refused, rooms, relay, commands, routes, raised, payload, now, emitted, handlers>>

UpdateDeviceStatus(device_id, status) ==
    /\ SetRegistry(update_device_status(device_id, status))
    /\ ret' = [op |-> "update_device_status", arg |-> device_id, result |-> None]
    /\ UNCHANGED <<connected, refused, rooms, relay, commands, routes, raised, payload, now, emitted, handlers>>

UpdateHeartbeat(device_id) ==
    /\ SetRegistry(update_heartbeat(device_id))
    /\ ret' = [op |-> "update_heartbeat", arg |-> device_id, result |-> None]
    /\ UNCHANGED <<connected, refused, rooms, relay, commands, routes, raised, payload, now, emitted, handlers>>

\* ------------------------------------------------- direct CommandQueue calls
\* queue_command as one call: the table it leaves and the pair it returns.
queue_command(device_id) ==
    LET is_online == is_device_online(device_id) IN
    [table |-> create_command(device_id, initial_status(is_online)),
     id |-> Len(commands) + 1,
     status |-> initial_status(is_online),
     was_delivered_immediately |-> is_online]

QueueCommand(device_id) ==
    /\ Len(commands) < MaxCommands
    /\ commands' = queue_command(device_id).table
    /\ UNCHANGED <<registry, relay, ret, connected, refused, rooms, routes, raised, payload, now, emitted, handlers>>

\* The ids of the rows that deliver_queued_commands reads.
pending_ids(device_id) ==
    [k \in 1..Len(get_pending_commands(device_id)) |->
        get_pending_commands(device_id)[k].id]

DeliverQueuedCommands(device_id) ==
    /\ commands' = deliver_queued_commands(commands, pending_ids(device_id))
    /\ UNCHANGED <<registry, relay, ret, connected, refused, rooms, routes, raised, payload, now, emitted, handlers>>

\* The durable-store part of handle_command_ack.
CommandAck(command_id, status, error) ==
    /\ commands' = command_ack(command_id, status, error)
    /\ UNCHANGED <<registry, relay, ret, connected, refused, rooms, routes, raised, payload, now, emitted, handlers>>

RegistryNext ==
    \/ \E d \in DeviceIds, s \in Sockets : RegisterDevice(d, s)
    \/ \E s \in Sockets : UnregisterDevice(s)
    \/ \E c \in ControllerIds, s \in Sockets, d \in DeviceIds : RegisterController(c, s, d)
    \/ \E s \in Sockets : UnregisterController(s)

RegistrySpec == Init /\ [][RegistryNext]_vars

\* ------------------------------------------------------------------ clock
Tick ==
    /\ now < MaxClock
    /\ now' = now + 1
    /\ UNCHANGED <<registry, relay, ret, connected, refused, rooms, commands, emitted, handlers,
                   routes, raised, payload>>

\* The calls the handlers and routes make on the registry and the command
\* queue, each as one step, with the clock advancing between them. The
\* registry calls are those of one connection: what the command queue reads
\* of the registry is which devices have a session.
ServiceSockets == {"h1"}

ServiceNext ==
    \/ \E d \in DeviceIds, s \in ServiceSockets : RegisterDevice(d, s)
    \/ \E s \in ServiceSockets : UnregisterDevice(s)
    \/ \E d \in DeviceIds : QueueCommand(d)
    \/ \E d \in DeviceIds : DeliverQueuedCommands(d)
    \/ \E x \in 1..MaxCommands, st \in AckStatuses, e \in AckErrors : CommandAck(x, st, e)
    \/ Tick

ServiceSpec == Init /\ [][ServiceNext]_vars

\* The registry calls on the sessions' cached fields, with the clock advancing
\* between them, for one controller and the sessions of one connection each.
SessionNext ==
    \/ \E d \in DeviceIds, s \in Sockets : RegisterDevice(d, s)
    \/ \E s \in Sockets : UnregisterDevice(s)
    \/ \E s \in ServiceSockets, d \in DeviceIds : RegisterController("c1", s, d)
    \/ \E d \in DeviceIds, st \in StatusUpdates : UpdateDeviceStatus(d, st)
    \/ \E d \in DeviceIds : UpdateHeartbeat(d)
    \/ Tick

SessionSpec == Init /\ [][SessionNext]_vars

\* ------------------------------------------------------- routes/devices.py
\* A device id that has no row in the devices table.
UnknownDevice == "d0"
RouteDevices == DeviceIds \cup {UnknownDevice}
PushTokens == {"t1"}

\* crud.get_device found a row
device_exists_any(device_id) == TRUE

\* crud.get_device(db, device_id) found a row.
device_exists(device_id) == device_id \in DOMAIN device_rows

\* What POST /{device_id}/commands answers, read once the row is inserted:
\* 404 DEVICE_NOT_FOUND, or 202 with the command id, the status and, for a
\* queued command only, its queue position (NULL: no such key).
create_command_response(device_id, was_delivered, command_id) ==
    IF ~device_exists(device_id)
    THEN [status_code |-> 404, code |-> "DEVICE_NOT_FOUND", success |-> FALSE,
          commandId |-> NULL, status |-> None, queuePosition |-> NULL]
    ELSE [status_code |-> 202, code |-> None, success |-> TRUE,
          commandId |-> command_id,
          status |-> IF was_delivered THEN "delivered" ELSE "queued",
          queuePosition |-> IF was_delivered THEN NULL
                            ELSE get_queue_position(command_id)]

\* POST /{device_id}/commands (routes.devices.create_command): get_device,
\* queue_command, get_queue_position, in the transaction of the request.
devices_create_command(device_id) ==
    /\ IF device_exists(device_id)
       THEN /\ Len(commands) < MaxCommands
            /\ commands' = queue_command(device_id).table
       ELSE UNCHANGED commands
    /\ UNCHANGED <<registry, relay, ret, connected, refused, rooms, now, emitted, handlers,
                   routes, raised, payload>>

\* crud.update_device_push_token: UPDATE devices SET push_token WHERE id
update_device_push_token(device_id, token) ==
    [push_tokens EXCEPT ![device_id] = token]

\* POST /{device_id}/push-token: the token is stored in the device's row.
register_push_token(device_id, token) ==
    /\ IF device_exists(device_id)
       THEN push_tokens' = update_device_push_token(device_id, token)
       ELSE UNCHANGED push_tokens
    /\ UNCHANGED <<registry, relay, ret, connected, refused, rooms, commands, now, emitted,
                   handlers, pushed, pairing_codes, pair, raised, payload>>

\* One call of the push service.
PushCall(method, device_id) == [method |-> method, device_id |-> device_id]

\* POST /{device_id}/command: 404 without a row or a token, else
\* push_service.send_command_notification.
send_command_to_device(device_id) ==
    /\ IF device_exists(device_id) /\ DictGet(push_tokens, device_id, None) # None
       THEN pushed' = pushed \cup {PushCall("send_command_notification", device_id)}
       ELSE UNCHANGED pushed
    /\ UNCHANGED <<registry, relay, ret, connected, refused, rooms, commands, now, emitted,
                   handlers, push_tokens, pairing_codes, pair, raised, payload>>

\* POST /{device_id}/ping: 404 without a row, "already_online" for a device
\* with a session, 400 without a token, else push_service.send_silent_ping.
ping_device(device_id) ==
    /\ IF /\ device_exists(device_id)
          /\ ~is_device_online(device_id)
          /\ DictGet(push_tokens, device_id, None) # None
       THEN pushed' = pushed \cup {PushCall("send_silent_ping", device_id)}
       ELSE UNCHANGED pushed
    /\ UNCHANGED <<registry, relay, ret, connected, refused, rooms, commands, now, emitted,
                   handlers, push_tokens, pairing_codes, pair, raised, payload>>

\* The routes of the devices API, each request as one step, while devices
\* register and unregister on one connection.
ApiNext ==
    \/ \E d \in DeviceIds, s \in ServiceSockets : RegisterDevice(d, s)
    \/ \E s \in ServiceSockets : UnregisterDevice(s)
    \/ \E d \in RouteDevices : devices_create_command(d)
    \/ \E d \in RouteDevices, t \in PushTokens : register_push_token(d, t)
    \/ \E d \in RouteDevices : send_command_to_device(d)
    \/ \E d \in RouteDevices : ping_device(d)

ApiSpec == Init /\ [][ApiNext]_vars

\* --------------------------------------------------------- routes/auth.py
\* The codes create_pairing_code draws, a code that was never created, and
\* the ids uuid4 gives to new devices.
PairingCodes == {"K1", "K2"}
UnknownCode == "K0"
NewDeviceIds == {"n1", "n2"}

PairingCode(expires_at) == [used |-> FALSE, expires_at |-> expires_at, device_id |-> None]

\* crud.create_pairing_code: a new row (the code is the primary key).
create_pairing_code(code) ==
    /\ code \notin DOMAIN pairing_codes
    /\ pairing_codes' = DictSet(pairing_codes, code,
                                PairingCode(now + pairing_code_expire_minutes))
    /\ UNCHANGED <<registry, relay, ret, connected, refused, rooms, commands, now, emitted,
                   handlers, push_tokens, pushed, pair, raised, payload>>

\* crud.validate_pairing_code: the row exists, is not used and has not expired.
validate_pairing_code(code) ==
    /\ code \in DOMAIN pairing_codes
    /\ ~pairing_codes[code].used
    /\ ~(pairing_codes[code].expires_at < now)

\* crud.use_pairing_code: UPDATE pairing_codes SET used = 1, device_id WHERE code
use_pairing_code(code, device_id) ==
    [k \in DOMAIN pairing_codes |->
        IF k = code THEN [pairing_codes[k] EXCEPT !.used = TRUE, !.device_id = device_id]
        ELSE pairing_codes[k]]

\* POST /register of a device, up to the validation of the pairing code: 400
\* INVALID_INPUT without a code, 400 PAIRING_CODE_INVALID for a code that
\* does not validate.
PairValidate(r, pairing_code) ==
    /\ pair[r].pc = "idle"
    /\ pair' = [pair EXCEPT ![r] =
          [pc |-> IF pairing_code = None THEN "INVALID_INPUT"
                  ELSE IF validate_pairing_code(pairing_code) THEN "create"
                  ELSE "PAIRING_CODE_INVALID",
           pairing_code |-> pairing_code, device_id |-> None]]
    /\ UNCHANGED <<registry, relay, ret, connected, refused, rooms, commands, now, emitted,
                   handlers, push_tokens, pushed, pairing_codes, raised, payload>>

\* The writes of the request, committed when the route returns 201:
\* create_device with a fresh id, use_pairing_code.
PairCreate(r) ==
    /\ pair[r].pc = "create"
    /\ LET device_id == CHOOSE n \in NewDeviceIds : n \notin DOMAIN device_rows IN
       /\ device_rows' = DictSet(device_rows, device_id, DeviceRow(OFFLINE, None))
       /\ pairing_codes' = use_pairing_code(pair[r].pairing_code, device_id)
       /\ pair' = [pair EXCEPT ![r].pc = "created", ![r].device_id = device_id]
    /\ UNCHANGED <<registry, controller_rooms, ret, connected, refused, rooms, commands, now,
                   emitted, handlers, push_tokens, pushed, raised, payload>>

\* Pairing codes are created and expire while two registration requests
\* are handled, interleaved at the awaits of the route.
PairingNext ==
    \/ \E k \in PairingCodes : create_pairing_code(k)
    \/ \E r \in Requests, k \in PairingCodes \cup {UnknownCode, None} : PairValidate(r, k)
    \/ \E r \in Requests : PairCreate(r)
    \/ Tick

PairingSpec == Init /\ [][PairingNext]_vars

\* ------------------------------------------------------------ transport
\* The open connections that are in room "device:<device_id>".
RoomMembers(device_id) == {s \in connected : device_id \in rooms[s]}

\* One controller:command event, with the connections it reaches.
CommandEvent(command_id, device_id, to, path) ==
    [commandId |-> command_id, targetDeviceId |-> device_id, to |-> to, path |-> path]

\* The open connections that are in room "controllers:<device_id>".
ControllerRoomMembers(device_id) ==
    {s \in connected : device_id \in controller_rooms[s]}

\* The well-signed, unexpired tokens and what jwt.decode reads in them:
\* "valid" is the device token of d1, the others are the device token of d2
\* and the controller token of c1.
TokenClaims ==
    [token \in {"valid", "valid_d2", "valid_c1"} |->
        CASE token = "valid" -> JWTPayload("d1", "device")
          [] token = "valid_d2" -> JWTPayload("d2", "device")
          [] token = "valid_c1" -> JWTPayload("c1", "controller")]

\* AuthService.decode_token: the payload of a valid token, None (NoPayload)
\* for any other.
decode_token(token) ==
    IF token \in DOMAIN TokenClaims THEN TokenClaims[token] ELSE NoPayload

\* connect that accepts every attempt
connect_accepts_all(auth) == TRUE

\* What the connect handler returns.
connect(auth) == auth # None /\ decode_token(auth) # NoPayload

\* connect: a fresh connection (a socket id is never reused while a handler of
\* its previous connection is running or a session still names it). The
\* transport opens the connection only if the handler returns True.
Connect(sid, auth) ==
    /\ sid \notin connected
    /\ reg[sid].pc = "idle"
    /\ sid \notin DOMAIN socket_to_device
    /\ sid \notin DOMAIN socket_to_controller
    /\ \A d \in DOMAIN devices : devices[d].socket_id # sid
    /\ \A c \in DOMAIN controllers : controllers[c].socket_id # sid
    /\ connected' = IF connect(auth) THEN connected \cup {sid} ELSE connected
    /\ refused' = IF connect(auth) THEN refused \ {sid} ELSE refused \cup {sid}
    /\ payload' = IF connect(auth) THEN [payload EXCEPT ![sid] = decode_token(auth)]
                   ELSE payload
    /\ UNCHANGED <<registry, relay, ret, rooms, commands, routes, raised, now, emitted, handlers>>

\* disconnect: unregister_device, else unregister_controller; the transport
\* takes the closed connection out of every room, and a closed connection has
\* no credential.
disconnect(sid) ==
    /\ sid \in connected
    /\ connected' = connected \ {sid}
    /\ rooms' = [rooms EXCEPT ![sid] = {}]
    /\ UNCHANGED refused
    /\ controller_rooms' = [controller_rooms EXCEPT ![sid] = {}]
    /\ IF unregister_device(sid).result # None
       THEN /\ SetRegistry(unregister_device(sid))
            /\ device_rows' = update_device_row(unregister_device(sid).result,
                                                 OFFLINE, None)
       ELSE /\ SetRegistry(unregister_controller(sid))
            /\ UNCHANGED device_rows
    /\ payload' = [payload EXCEPT ![sid] = NoPayload]
    /\ UNCHANGED <<ret, commands, routes, raised, now, emitted, handlers>>

\* The server:device_status events the disconnect handler emits, with the
\* connections they reach (the closing one is gone).
disconnect_emits(sid) ==
    LET device_id == unregister_device(sid).result IN
    IF device_id # None
    THEN <<[event |-> "server:device_status", deviceId |-> device_id,
            online |-> FALSE, to |-> ControllerRoomMembers(device_id) \ {sid}]>>
    ELSE <<>>

\* ------------------------------------------------- handle_device_register
\* register_device and enter_room, up to the first durable-store await.
RegisterStart(sid, device_id) ==
    /\ sid \in connected
    /\ reg[sid].pc = "idle"
    /\ SetRegistry(register_device(device_id, sid))
    /\ rooms' = [rooms EXCEPT ![sid] = @ \cup {device_id}]
    /\ reg' = [reg EXCEPT ![sid] = [pc |-> "deliver", device_id |-> device_id,
                                    batch |-> <<>>, i |-> 1, base |-> Len(emitted)]]
    /\ UNCHANGED <<relay, ret, connected, refused, commands, routes, raised, payload, now, emitted, cmd>>

\* device:register that takes a payload without deviceId
device_register_accepts_all(device_id) == TRUE

\* The check of data["deviceId"] (None: the field is missing).
device_register_valid(device_id) == device_id # None

\* What device:register returns: success = false for a payload it rejects,
\* else the number of queued commands it read.
device_register_reply(device_id, queued_commands) ==
    IF device_register_valid(device_id)
    THEN [success |-> TRUE, queuedCommands |-> Len(queued_commands)]
    ELSE [success |-> FALSE, queuedCommands |-> NULL]

\* The handler from the event on: a payload without deviceId is answered
\* with success = false and nothing is done.
handle_device_register(sid, device_id) ==
    IF device_register_valid(device_id)
    THEN RegisterStart(sid, device_id)
    ELSE sid \in connected /\ UNCHANGED vars

\* The devices row is updated to online and committed; deliver_queued_commands
\* reads the pending rows.
RegisterRead(sid) ==
    /\ reg[sid].pc = "deliver"
    /\ device_rows' = update_device_row(reg[sid].device_id, ONLINE, None)
    /\ reg' = [reg EXCEPT ![sid].batch = pending_ids(reg[sid].device_id),
                          ![sid].pc = "mark"]
    /\ UNCHANGED <<registry, controller_rooms, ret, connected, refused, rooms, commands, routes, raised, payload, now,
                   emitted, cmd>>

\* deliver_queued_commands updates every row it read; the handler commits.
RegisterMark(sid) ==
    /\ reg[sid].pc = "mark"
    /\ commands' = deliver_queued_commands(commands, reg[sid].batch)
    /\ reg' = [reg EXCEPT ![sid] = IF reg[sid].batch = <<>>
                                    THEN RegIdle ELSE [@ EXCEPT !.pc = "emit"]]
    /\ UNCHANGED <<registry, relay, ret, connected, refused, rooms, routes, raised, payload, now, emitted, cmd>>

\* One turn of the loop that sends the queued commands to the device's room;
\* the handler returns after the last one.
RegisterEmit(sid) ==
    /\ reg[sid].pc = "emit"
    /\ emitted' = Append(emitted,
          CommandEvent(reg[sid].batch[reg[sid].i], reg[sid].device_id,
                       RoomMembers(reg[sid].device_id), "replay"))
    /\ reg' = [reg EXCEPT ![sid] = IF reg[sid].i = Len(reg[sid].batch)
                                    THEN RegIdle ELSE [@ EXCEPT !.i = @ + 1]]
    /\ UNCHANGED <<registry, relay, ret, connected, refused, rooms, commands, routes, raised, payload, now, cmd>>

\* ----------------------------------------------- handle_controller_command
\* queue_command checks the registry and chooses the initial status.
CommandStart(device_id) ==
    /\ cmd.pc = "idle"
    /\ Len(commands) < MaxCommands
    /\ cmd' = [CmdIdle EXCEPT !.pc = "create", !.device_id = device_id,
                              !.is_online = is_device_online(device_id)]
    /\ UNCHANGED <<registry, relay, ret, connected, refused, rooms, commands, routes, raised, payload, now, emitted, reg>>

\* The checks of data["targetDeviceId"] and data["action"] (None: the field
\* is missing): both present, and the action in the command vocabulary.
controller_command_valid(target_device_id, action) ==
    /\ target_device_id # None
    /\ action # None
    /\ action \in CommandAction

\* The handler from the event on: a payload it rejects is answered with
\* success = false and nothing is done.
handle_controller_command(target_device_id, action) ==
    IF controller_command_valid(target_device_id, action)
    THEN CommandStart(target_device_id)
    ELSE UNCHANGED vars

\* queue_command creates the row; the handler commits.
CommandCreate ==
    /\ cmd.pc = "create"
    /\ commands' = create_command(cmd.device_id, initial_status(cmd.is_online))
    /\ cmd' = [cmd EXCEPT !.pc = "push", !.id = Len(commands) + 1]
    /\ UNCHANGED <<registry, relay, ret, connected, refused, rooms, routes, raised, payload, now, emitted, reg>>

\* handle_controller_command without the send
command_push_dropped(was_delivered, command_id, device_id) == <<>>

\* handle_controller_command that sends to every open connection
command_push_broadcast(was_delivered, command_id, device_id) ==
    IF was_delivered /\ get_device_socket_id(device_id) # None
    THEN <<CommandEvent(command_id, device_id, connected, "immediate")>>
    ELSE <<>>

\* handle_controller_command that sends to the device's room without looking
\* for the session
command_push_to_room(was_delivered, command_id, device_id) ==
    IF was_delivered
    THEN <<CommandEvent(command_id, device_id, RoomMembers(device_id), "immediate")>>
    ELSE <<>>

\* The events the handler sends to the device after the commit: with
\* was_delivered, one to the device's socket if the registry still has one;
\* otherwise none (the sender gets server:command_queued with the position).
command_push(was_delivered, command_id, device_id) ==
    LET device_socket == get_device_socket_id(device_id) IN
    IF was_delivered /\ device_socket # None
    THEN <<CommandEvent(command_id, device_id, {device_socket} \cap connected,
                        "immediate")>>
    ELSE <<>>

\* What handle_controller_command returns to the sender; in the queued branch
\* the position is also sent to the sender as server:command_queued.
command_reply(was_delivered, command_id, device_id) ==
    IF was_delivered
    THEN IF get_device_socket_id(device_id) # None
         THEN [success |-> TRUE, commandId |-> command_id, status |-> "delivered",
               queuePosition |-> NULL]
         ELSE [success |-> TRUE, commandId |-> command_id, status |-> None,
               queuePosition |-> NULL]
    ELSE [success |-> TRUE, commandId |-> command_id, status |-> "queued",
          queuePosition |-> get_queue_position(command_id)]

CommandPush ==
    /\ cmd.pc = "push"
    /\ emitted' = emitted \o command_push(cmd.is_online, cmd.id, cmd.device_id)
    /\ cmd' = CmdIdle
    /\ UNCHANGED <<registry, relay, ret, connected, refused, rooms, commands, routes, raised, payload, now, reg>>

\* --------------------------------------------------- handle_command_ack
\* The update and its commit; the ack is then forwarded to the controllers
\* of the sender's device, which changes nothing that is modelled here. A
\* payload without commandId (NULL) is dropped.
handle_command_ack(sid, command_id, status, error) ==
    /\ sid \in connected
    /\ commands' = IF command_id # NULL THEN command_ack(command_id, status, error)
                   ELSE commands
    /\ UNCHANGED <<registry, relay, ret, connected, refused, rooms, routes, raised, payload, now, emitted, reg, cmd>>

\* ------------------------------------------------ handle_controller_register
\* controller:register answered from the devices table
controller_register_reply_from_rows(target_device_id) ==
    [success |-> TRUE,
     deviceOnline |-> device_rows[target_device_id].status = ONLINE,
     deviceStatus |-> device_rows[target_device_id].current_status]

\* The acknowledgment of controller:register, from the registry as it is when
\* the handler reads the target's session.
controller_register_reply(target_device_id) ==
    LET device == get_device(target_device_id) IN
    [success |-> TRUE,
     deviceOnline |-> device # NoDevice,
     deviceStatus |-> IF device # NoDevice /\ device.status # None
                      THEN device.status ELSE None]

\* The check of data["controllerId"] and data["targetDeviceId"].
controller_register_valid(controller_id, target_device_id) ==
    controller_id # None /\ target_device_id # None

\* register_controller, enter_room("controllers:<target>"), the reply; a
\* payload with a missing field is answered with success = false.
handle_controller_register(sid, controller_id, target_device_id) ==
    /\ sid \in connected
    /\ IF controller_register_valid(controller_id, target_device_id)
       THEN /\ SetRegistry(register_controller(controller_id, sid, target_device_id))
            /\ controller_rooms' = [controller_rooms EXCEPT
                                      ![sid] = @ \cup {target_device_id}]
       ELSE UNCHANGED <<registry, controller_rooms>>
    /\ UNCHANGED <<device_rows, ret, connected, refused, rooms, commands, routes, raised, payload, now, emitted, handlers>>

\* ------------------------------------------------------ handle_device_status
\* data["deviceId"] may be missing and data["status"] may fail validation
\* ("invalid"): the handler returns, or catches the exception, with nothing done.
handle_device_status(sid, device_id, status) ==
    /\ sid \in connected
    /\ IF device_id # None /\ status \in StatusUpdates
       THEN /\ SetRegistry(update_device_status(device_id, status))
            /\ device_rows' = update_device_row(device_id, ONLINE, status)
       ELSE UNCHANGED <<registry, device_rows>>
    /\ UNCHANGED <<controller_rooms, ret, connected, refused, rooms, commands, routes, raised, payload, now, emitted,
                   handlers>>

\* The connections that receive what a device handler forwards to room
\* "controllers:<device_id>" (server:device_status, device:frame, device:audio,
\* device:location, device:sound_detected, device:command_ack).
forward_to_controllers(device_id) ==
    IF device_id # None THEN ControllerRoomMembers(device_id) ELSE {}

\* --------------------- handle_device_frame / _audio / _location / _sound_detected
\* The forwarding handlers: they write nothing, they emit the payload to the
\* controllers' room of data["deviceId"].
ForwardedEvents == {"device:frame", "device:audio", "device:location",
                    "device:sound_detected"}

handle_device_event(sid, event, device_id) ==
    /\ sid \in connected
    /\ event \in ForwardedEvents
    /\ UNCHANGED vars

\* --------------------------------------------------- handle_device_heartbeat
handle_device_heartbeat(sid, device_id) ==
    /\ sid \in connected
    /\ IF device_id # None
       THEN SetRegistry(update_heartbeat(device_id))
       ELSE UNCHANGED registry
    /\ UNCHANGED <<relay, ret, connected, refused, rooms, commands, routes, raised, payload, now, emitted, handlers>>

\* ------------------------------------------------- durable-store failures
\* A statement or commit of the durable store raises inside a handler. The
\* handler's session is rolled back when the exception leaves its
\* `async with` block; what was done in memory before stays done.

\* disconnect of a device's connection: unregister_device has run, the
\* update of the devices row raises, and nothing catches it: the row is not
\* written and server:device_status is not sent.
disconnect_store_error(sid) ==
    /\ sid \in connected
    /\ unregister_device(sid).result # None
    /\ connected' = connected \ {sid}
    /\ rooms' = [rooms EXCEPT ![sid] = {}]
    /\ controller_rooms' = [controller_rooms EXCEPT ![sid] = {}]
    /\ SetRegistry(unregister_device(sid))
    /\ raised' = raised \cup {"disconnect"}
    /\ payload' = [payload EXCEPT ![sid] = NoPayload]
    /\ UNCHANGED <<device_rows, refused, ret, commands, now, emitted, handlers, routes>>

\* device:register: the update of the devices row or the read of the pending
\* rows raises after register_device and enter_room; nothing catches it.
RegisterRead_store_error(sid) ==
    /\ reg[sid].pc = "deliver"
    /\ reg' = [reg EXCEPT ![sid] = RegIdle]
    /\ raised' = raised \cup {"device:register"}
    /\ UNCHANGED <<registry, relay, ret, connected, refused, rooms, commands, now, emitted,
                   cmd, routes, payload>>

\* device:register: an update of deliver_queued_commands or the commit raises.
RegisterMark_store_error(sid) ==
    /\ reg[sid].pc = "mark"
    /\ reg' = [reg EXCEPT ![sid] = RegIdle]
    /\ raised' = raised \cup {"device:register"}
    /\ UNCHANGED <<registry, relay, ret, connected, refused, rooms, commands, now, emitted,
                   cmd, routes, payload>>

\* device:status: the session's cache is updated, the update of the devices
\* row raises inside the try block; the except clause logs it and the
\* handler returns (nothing is forwarded to the controllers).
handle_device_status_store_error(sid, device_id, status) ==
    /\ sid \in connected
    /\ device_id # None /\ status \in StatusUpdates
    /\ SetRegistry(update_device_status(device_id, status))
    /\ UNCHANGED <<relay, ret, connected, refused, rooms, commands, now, emitted, handlers,
                   routes, raised, payload>>

\* device:command_ack: mark_completed or the commit raises; nothing catches
\* it, and the acknowledgment is not forwarded.
handle_command_ack_store_error(sid, command_id, status, error) ==
    /\ sid \in connected
    /\ command_id # NULL
    /\ raised' = raised \cup {"device:command_ack"}
    /\ UNCHANGED <<registry, relay, ret, connected, refused, rooms, commands, now, emitted,
                   handlers, routes, payload>>

\* controller:command: queue_command or the commit raises; nothing catches
\* it, and the sender gets no answer.
CommandCreate_store_error ==
    /\ cmd.pc = "create"
    /\ cmd' = CmdIdle
    /\ raised' = raised \cup {"controller:command"}
    /\ UNCHANGED <<registry, relay, ret, connected, refused, rooms, commands, now, emitted,
                   reg, routes, payload>>

\* ------------------------------------------------------------ specifications
\* The devices that connect in the handler specifications: d1 connects and
\* re-connects, on either socket; d2 stays offline, so that its commands queue.
ConnectingDevices == {"d1"}

\* No registration is in progress: registrations are taken one at a time, and
\* each overlaps with commands, acknowledgments, connects and disconnects.
NoRegistration == \A s \in Sockets : reg[s].pc = "idle"

\* The handlers interleave at their await points. The clock stands still: no
\* handler's control flow reads it. The connections are those that present a
\* valid token (a refused attempt reaches no handler).
Next ==
    \/ \E s \in Sockets : Connect(s, "valid")
    \/ \E s \in Sockets : disconnect(s)
    \/ \E s \in Sockets, d \in ConnectingDevices : NoRegistration /\ RegisterStart(s, d)
    \/ \E s \in Sockets : RegisterRead(s)
    \/ \E s \in Sockets : RegisterMark(s)
    \/ \E s \in Sockets : RegisterEmit(s)
    \/ \E d \in DeviceIds : CommandStart(d)
    \/ CommandCreate
    \/ CommandPush
    \/ \E s \in Sockets, x \in 1..MaxCommands, st \in AckStatuses, e \in AckErrors :
          handle_command_ack(s, x, st, e)

Spec == Init /\ [][Next]_vars

\* One event is handled at a time: a handler runs to its return before the
\* next event is taken.
SeqNext ==
    \/ \E s \in Sockets : Quiescent /\ Connect(s, "valid")
    \/ \E s \in Sockets : Quiescent /\ disconnect(s)
    \/ \E s \in Sockets, d \in ConnectingDevices : Quiescent /\ RegisterStart(s, d)
    \/ \E s \in Sockets : RegisterRead(s)
    \/ \E s \in Sockets : RegisterMark(s)
    \/ \E s \in Sockets : RegisterEmit(s)
    \/ \E d \in DeviceIds : Quiescent /\ CommandStart(d)
    \/ CommandCreate
    \/ CommandPush
    \/ \E s \in Sockets, x \in 1..MaxCommands, st \in AckStatuses, e \in AckErrors :
          Quiescent /\ handle_command_ack(s, x, st, e)

SeqSpec == Init /\ [][SeqNext]_vars

\* The registrations, status traffic and disconnects of devices and
\* controllers, one event at a time, with no command in the table. Connect
\* attempts come with and without a valid token. One controller id registers,
\* from either connection and for either device.
RelayControllers == {"c1"}

RelayNext ==
    \/ \E s \in Sockets, a \in Auths : Quiescent /\ Connect(s, a)
    \/ \E s \in Sockets : Quiescent /\ disconnect(s)
    \/ \E s \in Sockets, d \in ConnectingDevices : Quiescent /\ RegisterStart(s, d)
    \/ \E s \in Sockets : RegisterRead(s)
    \/ \E s \in Sockets : RegisterMark(s)
    \/ \E s \in Sockets, c \in RelayControllers, d \in DeviceIds :
          Quiescent /\ handle_controller_register(s, c, d)
    \/ \E s \in Sockets, d \in DeviceIds \cup {None}, st \in StatusUpdates \cup {"invalid"} :
          Quiescent /\ handle_device_status(s, d, st)
    \/ \E s \in Sockets, e \in ForwardedEvents, d \in DeviceIds \cup {None} :
          Quiescent /\ handle_device_event(s, e, d)
    \/ \E s \in Sockets, d \in DeviceIds \cup {None} :
          Quiescent /\ handle_device_heartbeat(s, d)

RelaySpec == Init /\ [][RelayNext]_vars

\* Every event of the realtime protocol, one at a time, with well-formed
\* payloads and with payloads that miss a field (None, NULL for the command
\* id) or name an action outside the vocabulary. The well-formed events
\* are those of one device and of one controller that targets it, with one
\* status snapshot, and the acknowledgments carry no error string.
EventActions == {None, "reboot", "capture_photo"}
EventDevices == ConnectingDevices \cup {None}
EventStatuses == {"camera_on", "invalid"}

EventNext ==
    \/ \E s \in Sockets : Quiescent /\ Connect(s, "valid")
    \/ \E s \in Sockets : Quiescent /\ disconnect(s)
    \/ \E s \in Sockets, d \in EventDevices : Quiescent /\ handle_device_register(s, d)
    \/ \E s \in Sockets : RegisterRead(s)
    \/ \E s \in Sockets : RegisterMark(s)
    \/ \E s \in Sockets : RegisterEmit(s)
    \/ \E s \in Sockets, c \in RelayControllers \cup {None}, d \in EventDevices :
          Quiescent /\ handle_controller_register(s, c, d)
    \/ \E d \in EventDevices, a \in EventActions :
          Quiescent /\ handle_controller_command(d, a)
    \/ CommandCreate
    \/ CommandPush
    \/ \E s \in Sockets, x \in 0..MaxCommands, st \in AckStatuses :
          Quiescent /\ handle_command_ack(s, x, st, None)
    \/ \E s \in Sockets, d \in EventDevices, st \in EventStatuses :
          Quiescent /\ handle_device_status(s, d, st)
    \/ \E s \in Sockets, e \in ForwardedEvents, d \in EventDevices :
          Quiescent /\ handle_device_event(s, e, d)
    \/ \E s \in Sockets, d \in EventDevices : Quiescent /\ handle_device_heartbeat(s, d)

EventSpec == Init /\ [][EventNext]_vars

\* The device that is commanded and reports status, and the status it reports
\* (registrations use every device).
FaultDevices == {"d1"}
FaultStatuses == {"camera_on"}

\* The events that write to the durable store, one at a time, where every
\* statement of the store either succeeds or raises.
FaultNext ==
    \/ \E s \in Sockets : Quiescent /\ Connect(s, "valid")
    \/ \E s \in Sockets : Quiescent /\ disconnect(s)
    \/ \E s \in Sockets : Quiescent /\ disconnect_store_error(s)
    \/ \E s \in Sockets, d \in ConnectingDevices : Quiescent /\ RegisterStart(s, d)
    \/ \E s \in Sockets : RegisterRead(s)
    \/ \E s \in Sockets : RegisterRead_store_error(s)
    \/ \E s \in Sockets : RegisterMark(s)
    \/ \E s \in Sockets : RegisterMark_store_error(s)
    \/ \E s \in Sockets : RegisterEmit(s)
    \/ \E d \in FaultDevices : Quiescent /\ CommandStart(d)
    \/ CommandCreate
    \/ CommandCreate_store_error
    \/ CommandPush
    \/ \E s \in Sockets, x \in 1..MaxCommands, st \in AckStatuses :
          Quiescent /\ handle_command_ack(s, x, st, None)
    \/ \E s \in Sockets, x \in 1..MaxCommands, st \in AckStatuses :
          Quiescent /\ handle_command_ack_store_error(s, x, st, None)
    \/ \E s \in Sockets, d \in FaultDevices, st \in FaultStatuses :
          Quiescent /\ handle_device_status(s, d, st)
    \/ \E s \in Sockets, d \in FaultDevices, st \in FaultStatuses :
          Quiescent /\ handle_device_status_store_error(s, d, st)

FaultSpec == Init /\ [][FaultNext]_vars

\* Connections that present the token of either device or of the controller
\* and then register under any device id or as the controller of d1, send
\* status for d1, and close; one event at a time.
BindingAuths == DOMAIN TokenClaims \cup {None, "invalid"}

BindingNext ==
    \/ \E s \in Sockets, a \in BindingAuths : Quiescent /\ Connect(s, a)
    \/ \E s \in Sockets : Quiescent /\ disconnect(s)
    \/ \E s \in Sockets, d \in DeviceIds \cup {None} :
          Quiescent /\ handle_device_register(s, d)
    \/ \E s \in Sockets : RegisterRead(s)
    \/ \E s \in Sockets : RegisterMark(s)
    \/ \E s \in Sockets, c \in RelayControllers, d \in ConnectingDevices :
          Quiescent /\ handle_controller_register(s, c, d)
    \/ \E s \in Sockets, d \in ConnectingDevices, st \in FaultStatuses :
          Quiescent /\ handle_device_status(s, d, st)

BindingSpec == Init /\ [][BindingNext]_vars

\* The two entry points that create commands, for devices with a row and for
\* a device id without one, while devices register and unregister on one
\* connection. The insert for an id without a row goes through where the
\* store does not enforce the foreign key (SQLite as configured) and raises
\* where it does.
OwnerNext ==
    \/ \E d \in DeviceIds, s \in ServiceSockets : Quiescent /\ RegisterDevice(d, s)
    \/ \E s \in ServiceSockets : Quiescent /\ UnregisterDevice(s)
    \/ \E d \in RouteDevices : Quiescent /\ devices_create_command(d)
    \/ \E d \in RouteDevices \cup {None}, a \in EventActions :
          Quiescent /\ handle_controller_command(d, a)
    \/ CommandCreate
    \/ ~device_exists(cmd.device_id) /\ CommandCreate_store_error
    \/ CommandPush

OwnerSpec == Init /\ [][OwnerNext]_vars

\* The interleaved handlers with the scheduling of the event loop: a
\* registration handler waiting on the store is resumed when the store
\* answers, and the store answers (it does not fail here).
LiveSpec ==
    /\ Init /\ [][Next]_vars
    /\ \A s \in Sockets :
          /\ WF_vars(RegisterRead(s))
          /\ WF_vars(RegisterMark(s))
          /\ WF_vars(RegisterEmit(s))

\* ================================================================== claims
\* D has a session in the registry / the rows of D that wait in the queue.
HasSession(device_id) == get_device(device_id) # NoDevice
Waiting(device_id) ==
    {i \in 1..Len(commands) : /\ commands[i].device_id = device_id
                              /\ commands[i].status \in {PENDING, QUEUED}}

\* C1: queue_command(D, ...) adds exactly one row, for D, and leaves the other
\* rows alone; with no session for D in the registry at the call it returns
\* was_delivered_immediately = false and the row is queued, with a session it
\* returns true and the row is delivered.
C1_QueueCommandStatus ==
    [][\A d \in DeviceIds : QueueCommand(d) =>
          /\ Len(commands') = Len(commands) + 1
          /\ SubSeq(commands', 1, Len(commands)) = commands
          /\ commands'[Len(commands')].device_id = d
          /\ ~HasSession(d) =>
                /\ queue_command(d).was_delivered_immediately = FALSE
                /\ commands'[Len(commands')].status = QUEUED
          /\ HasSession(d) =>
                /\ queue_command(d).was_delivered_immediately = TRUE
                /\ commands'[Len(commands')].status = DELIVERED]_vars

\* Both cases happened for one device: its first command was queued and still
\* waits, its second was created delivered (no replay has written delivered_at).
C1_Witness ==
    /\ Len(commands) = 2
    /\ commands[1].device_id = commands[2].device_id
    /\ commands[1].status = QUEUED
    /\ commands[2].status = DELIVERED
    /\ commands[2].delivered_at = NULL

\* C2: deliver_queued_commands(D) moves every waiting row of D to delivered,
\* returns exactly those rows in creation order, changes no other row, and
\* a call that follows at once returns the empty list.
C2_DeliverQueuedDrains ==
    [][\A d \in DeviceIds : DeliverQueuedCommands(d) =>
          LET returned == pending_ids(d) IN
          /\ Len(commands') = Len(commands)
          /\ Len(returned) = Cardinality(Waiting(d))
          /\ {returned[k] : k \in 1..Len(returned)} = {commands[i].id : i \in Waiting(d)}
          /\ \A k, l \in 1..Len(returned) :
                k < l => commands[returned[k]].created_at < commands[returned[l]].created_at
          /\ \A i \in Waiting(d) : commands'[i].status = DELIVERED
          /\ \A i \in (1..Len(commands)) \ Waiting(d) : commands'[i] = commands[i]
          /\ pending_ids(d)' = <<>>]_vars

\* A replay delivered two rows of one device (delivered_at is written by the
\* replay alone, here at one instant, after the clock had advanced), and
\* nothing of that device waits any more.
C2_Witness ==
    /\ Len(commands) = 2
    /\ commands[1].device_id = commands[2].device_id
    /\ commands[1].status = DELIVERED /\ commands[2].status = DELIVERED
    /\ commands[1].delivered_at = MaxClock /\ commands[2].delivered_at = MaxClock
    /\ pending_ids(commands[1].device_id) = <<>>

\* C9: get_queue_position(c) is the 1-based rank of c, by creation, among the
\* rows of its device that still wait (so 1 for the earliest and strictly
\* larger for each later one), and nothing for an unknown id or a row that is
\* delivered or later.
QueueRank(command_id) ==
    IF command_id \in 1..Len(commands) /\ commands[command_id].status \in {PENDING, QUEUED}
    THEN Cardinality({i \in Waiting(commands[command_id].device_id) :
                         commands[i].created_at <= commands[command_id].created_at})
    ELSE NULL

C9_QueuePositionIsRank ==
    /\ \A x \in 1..(MaxCommands + 1) : get_queue_position(x) = QueueRank(x)
    /\ \A x, y \in 1..Len(commands) :
          /\ commands[x].device_id = commands[y].device_id
          /\ commands[x].created_at < commands[y].created_at
          /\ get_queue_position(x) # NULL /\ get_queue_position(y) # NULL
          => get_queue_position(x) < get_queue_position(y)

\* Two rows of one device wait, at positions 1 and 2.
C9_Witness ==
    /\ Len(commands) = 2
    /\ commands[1].device_id = commands[2].device_id
    /\ commands[1].status = QUEUED /\ commands[2].status = QUEUED
    /\ get_queue_position(1) = 1 /\ get_queue_position(2) = 2

\* C10: a command_ack for X with status "failed" and a non-empty error e
\* leaves X failed, with error e and the completion timestamp set.
C10_FailedAckRecorded ==
    [][\A x \in 1..Len(commands), e \in AckErrors \ {None, ""} :
          CommandAck(x, "failed", e) =>
             /\ commands'[x].status = FAILED
             /\ commands'[x].error = e
             /\ commands'[x].completed_at # NULL]_vars

C10_Witness ==
    \E x \in 1..Len(commands) :
       /\ commands[x].status = FAILED
       /\ commands[x].error = "denied"
       /\ commands[x].completed_at # NULL

\* C7: a session found by its socket is the session found by its device id,
\* and right after unregister_device(h) neither get_device_by_socket(h) nor
\* get_device of the id it returned finds a session.
C7_LookupsAgree ==
    /\ \A h \in Sockets :
          get_device_by_socket(h) # NoDevice =>
             get_device(get_device_by_socket(h).device_id) = get_device_by_socket(h)
    /\ ret.op = "unregister_device" =>
          /\ get_device_by_socket(ret.arg) = NoDevice
          /\ ret.result # None => get_device(ret.result) = NoDevice

\* unregister_device has just removed a device while another session stays.
C7_Witness ==
    /\ ret.op = "unregister_device"
    /\ ret.result # None
    /\ \E h \in Sockets : get_device_by_socket(h) # NoDevice

\* C8: the socket->identity maps and the identity->session maps agree in both
\* directions, for devices and for controllers.
C8_IndexConsistent ==
    /\ \A h \in DOMAIN socket_to_device : socket_to_device[h] \in DOMAIN devices
    /\ \A d \in DOMAIN devices :
          /\ devices[d].socket_id \in DOMAIN socket_to_device
          /\ socket_to_device[devices[d].socket_id] = d
    /\ \A h \in DOMAIN socket_to_controller :
          socket_to_controller[h] \in DOMAIN controllers
    /\ \A c \in DOMAIN controllers :
          /\ controllers[c].socket_id \in DOMAIN socket_to_controller
          /\ socket_to_controller[controllers[c].socket_id] = c

\* C3: a registration of D that finds N waiting (queued) commands of D sends
\* D's connection exactly N controller:command events, one per command, in
\* creation order, and when the handler returns the N rows read delivered.
C3_ReplayOnRegister ==
    [][\A s \in Sockets :
          /\ (reg[s].pc = "deliver" /\ reg'[s].pc = "mark") =>
                LET d == reg[s].device_id
                    b == reg'[s].batch
                IN /\ Len(b) = Cardinality(Waiting(d))
                   /\ {b[k] : k \in 1..Len(b)} = {commands[i].id : i \in Waiting(d)}
                   /\ \A k, l \in 1..Len(b) :
                         k < l => commands[b[k]].created_at < commands[b[l]].created_at
          /\ (reg[s].pc \in {"mark", "emit"} /\ reg'[s].pc = "idle") =>
                LET b == reg[s].batch
                    sent == SubSeq(emitted', reg[s].base + 1, Len(emitted'))
                IN /\ Len(sent) = Len(b)
                   /\ \A k \in 1..Len(b) :
                         /\ sent[k].commandId = b[k]
                         /\ sent[k].targetDeviceId = reg[s].device_id
                         /\ s \in sent[k].to
                         /\ commands'[b[k]].status = DELIVERED]_vars

\* A registration has replayed two commands, in creation order, to one
\* connection, and has returned.
C3_Witness ==
    /\ Quiescent
    /\ Len(emitted) = 2
    /\ emitted[1].commandId = 1 /\ emitted[1].path = "replay"
    /\ emitted[2].commandId = 2 /\ emitted[2].path = "replay"
    /\ emitted[1].to # {} /\ emitted[1].to = emitted[2].to
    /\ commands[1].status = DELIVERED /\ commands[2].status = DELIVERED

\* C4: the command events that reach a connection of device D come in the
\* order in which D's commands were created, whichever of the two paths
\* (immediate, replay) sends them.
C4_CreationOrderDelivery ==
    \A i, j \in 1..Len(emitted) :
       /\ i < j
       /\ emitted[i].targetDeviceId = emitted[j].targetDeviceId
       /\ emitted[i].to \cap emitted[j].to # {}
       => commands[emitted[i].commandId].created_at
             <= commands[emitted[j].commandId].created_at

\* The event the immediate path sends for the handler's command.
ImmediateEvent(event) ==
    /\ event.commandId = cmd.id
    /\ event.targetDeviceId = cmd.device_id
    /\ event.path = "immediate"

\* C5 as stated: a command whose queue_command call found D registered is in
\* the batch of a registration or is pushed on the immediate path.
C5_NeverDropped ==
    [][(cmd.pc = "push" /\ cmd'.pc = "idle" /\ cmd.is_online) =>
          \/ /\ Len(emitted') = Len(emitted) + 1
             /\ ImmediateEvent(emitted'[Len(emitted')])
          \/ \E s \in Sockets :
                \E k \in 1..Len(reg[s].batch) : reg[s].batch[k] = cmd.id]_vars

\* C5 amended: a command whose queue_command call found D registered is
\* created delivered, and is pushed on the immediate path, to the socket the
\* registry holds for D, if D still has a session when the handler sends.
C5_PushedWhileRegistered ==
    [][/\ (cmd.pc = "create" /\ cmd'.pc = "push" /\ cmd.is_online) =>
             /\ Len(commands') = Len(commands) + 1
             /\ commands'[cmd'.id].status = DELIVERED
       /\ (cmd.pc = "push" /\ cmd'.pc = "idle" /\ cmd.is_online
                           /\ HasSession(cmd.device_id)) =>
             /\ Len(emitted') = Len(emitted) + 1
             /\ ImmediateEvent(emitted'[Len(emitted')])
             /\ emitted'[Len(emitted')].to = {get_device(cmd.device_id).socket_id}]_vars

\* While a registration of D is in progress, a command for D was pushed on the
\* immediate path.
C5_Witness ==
    \E s \in Sockets :
       /\ reg[s].pc # "idle"
       /\ \E i \in (reg[s].base + 1)..Len(emitted) :
             /\ emitted[i].path = "immediate"
             /\ emitted[i].targetDeviceId = reg[s].device_id
             /\ s \in emitted[i].to

\* pending|queued -> delivered -> executing -> completed|failed
StatusRank(status) ==
    CASE status \in {PENDING, QUEUED} -> 0
      [] status = DELIVERED -> 1
      [] status = EXECUTING -> 2
      [] status \in {COMPLETED, FAILED} -> 3

\* C6: no step moves a command's status backward.
C6_StatusMonotonic ==
    [][\A i \in 1..Len(commands) :
          StatusRank(commands[i].status) <= StatusRank(commands'[i].status)]_vars

\* The row of X reads as the acknowledgment (status, error) leaves it: X is
\* terminal, and the acknowledgment would write the status and the error it has.
AlreadyAcked(x, status, error) ==
    /\ status \in {"completed", "failed"}
    /\ commands[x].status \in {COMPLETED, FAILED}
    /\ commands[x].completed_at # NULL
    /\ command_ack(x, status, error)[x].status = commands[x].status
    /\ command_ack(x, status, error)[x].error = commands[x].error

\* C11: re-sending the acknowledgment of a terminal command leaves its status,
\* its error and its completion timestamp as they are.
C11_ReAckIdempotent ==
    [][\A x \in 1..Len(commands), st \in AckStatuses, e \in AckErrors :
          (CommandAck(x, st, e) /\ AlreadyAcked(x, st, e)) =>
             commands'[x] = commands[x]]_vars

\* The sessions with a given device id (the registry is keyed by device id).
SessionsOf(device_id) ==
    {k \in DOMAIN devices : devices[k].device_id = device_id}

\* C14: register_device(D, h) leaves exactly one session for D, bound to h
\* (get_device(D).socket_id = h, get_device_socket_id(D) = h, D online), also
\* when D had a session on another handle; no device id ever has two sessions.
C14_OneSessionPerDevice ==
    [][\A d \in DeviceIds, h \in Sockets : RegisterDevice(d, h) =>
          /\ get_device(d)'.socket_id = h
          /\ get_device(d)'.device_id = d
          /\ get_device_socket_id(d)' = h
          /\ is_device_online(d)'
          /\ ret'.result = d
          /\ \A k \in DeviceIds : Cardinality(SessionsOf(k)') <= 1
          /\ Cardinality(SessionsOf(d)') = 1]_vars

\* d1 was registered on h1 and has just been registered again, on h2.
C14_Witness ==
    /\ ret.op = "register_device" /\ ret.arg = "h2" /\ ret.result = "d1"
    /\ "h1" \in DOMAIN socket_to_device /\ socket_to_device["h1"] = "d1"
    /\ get_device("d1").socket_id = "h2"

\* C15: unregister_device(h) returns the device id of a known handle and
\* removes the handle and that device's session; for an unknown handle it
\* returns nothing and changes no registry map; a second call with the same
\* handle is such a call.
C15_UnregisterIdempotent ==
    [][\A h \in Sockets : UnregisterDevice(h) =>
          /\ h \in DOMAIN socket_to_device =>
                /\ ret'.result = socket_to_device[h]
                /\ socket_to_device[h] \notin DOMAIN devices'
          /\ h \notin DOMAIN socket_to_device =>
                /\ ret'.result = None
                /\ UNCHANGED registry
          /\ h \notin DOMAIN socket_to_device'
          /\ unregister_device(h)'.result = None
          /\ unregister_device(h)'.devices = devices'
          /\ unregister_device(h)'.socket_to_device = socket_to_device'
          /\ unregister_device(h)'.controllers = controllers'
          /\ unregister_device(h)'.socket_to_controller = socket_to_controller']_vars

\* unregister_device was called with a handle the registry does not know,
\* while a device and a controller have sessions.
C15_Witness ==
    /\ ret.op = "unregister_device" /\ ret.result = None
    /\ DOMAIN devices # {} /\ DOMAIN controllers # {}
    /\ ret.arg \notin DOMAIN socket_to_device

\* The fields of a session that update_device_status and update_heartbeat
\* leave alone.
SessionIdentity(session) ==
    <<session.device_id, session.socket_id, session.connected_at>>

\* C16: update_device_status(D, s) and update_heartbeat(D) change only the
\* cached fields of D's session; without a session for D they change nothing;
\* they never change the index maps, another device's session or a controller.
C16_CachedFieldsOnly ==
    [][\A d \in DeviceIds :
          ((\E st \in StatusUpdates : UpdateDeviceStatus(d, st)) \/ UpdateHeartbeat(d)) =>
             /\ UNCHANGED <<socket_to_device, controllers, socket_to_controller>>
             /\ DOMAIN devices' = DOMAIN devices
             /\ \A k \in DOMAIN devices : k # d => devices'[k] = devices[k]
             /\ d \in DOMAIN devices =>
                   /\ SessionIdentity(devices'[d]) = SessionIdentity(devices[d])
                   /\ devices'[d].last_heartbeat = now
                   /\ UpdateHeartbeat(d) =>
                         /\ devices'[d].status = devices[d].status
                         /\ devices'[d].camera_active = devices[d].camera_active
                         /\ devices'[d].audio_active = devices[d].audio_active
                   /\ \A st \in StatusUpdates : UpdateDeviceStatus(d, st) =>
                         /\ devices'[d].status = st
                         /\ devices'[d].camera_active = camera_active(st)
                         /\ devices'[d].audio_active = audio_active(st)]_vars

\* A status update reached d1's session after the clock had advanced, while d2
\* has a session that no update touched and a controller is registered; and
\* the last call was made for a device without a session.
C16_Witness ==
    /\ is_device_online("d1") /\ is_device_online("d2")
    /\ devices["d1"].status = "camera_on"
    /\ devices["d1"].last_heartbeat > devices["d1"].connected_at
    /\ devices["d2"].status = None
    /\ DOMAIN controllers # {}
    /\ ret.op \in {"update_device_status", "update_heartbeat"}

BoundHandles ==
    DOMAIN socket_to_device \cup DOMAIN socket_to_controller
       \cup {devices[d].socket_id : d \in DOMAIN devices}
       \cup {controllers[c].socket_id : c \in DOMAIN controllers}

\* C13: a connect attempt with no token or an invalid one is refused, changes
\* nothing in the registry, and the registry never names a handle whose
\* connect was refused.
C13_RefusedNeverRegistered ==
    [][/\ \A s \in Sockets, a \in {None, "invalid"} : Connect(s, a) =>
             /\ s \notin connected'
             /\ s \in refused'
             /\ UNCHANGED registry
       /\ \A h \in refused' : h \notin connected' /\ h \notin BoundHandles']_vars

\* h2 was refused while h1 is registered as a device and as a controller's handle.
C13_Witness ==
    /\ refused # {}
    /\ DOMAIN socket_to_device # {}
    /\ DOMAIN socket_to_controller # {}

\* C17: when a connection registered as device D closes, D is unregistered,
\* D's row reads offline and server:device_status with online = false is
\* emitted for D; when a connection registered as a controller closes, its
\* controller session is removed.
C17_DisconnectCleansUp ==
    [][\A s \in Sockets : disconnect(s) =>
          /\ s \in DOMAIN socket_to_device =>
                /\ s \notin DOMAIN socket_to_device'
                /\ socket_to_device[s] \notin DOMAIN devices'
                /\ device_rows'[socket_to_device[s]].status = OFFLINE
                /\ Len(disconnect_emits(s)) = 1
                /\ disconnect_emits(s)[1].deviceId = socket_to_device[s]
                /\ disconnect_emits(s)[1].online = FALSE
          /\ s \in DOMAIN socket_to_controller =>
                /\ s \notin DOMAIN socket_to_controller'
                /\ socket_to_controller[s] \notin DOMAIN controllers']_vars

\* The connection has no session in the registry.
Unregistered(s) ==
    s \notin DOMAIN socket_to_device /\ s \notin DOMAIN socket_to_controller

\* C18: an event from a connection with no registry session changes nothing
\* in the registry or in the durable store and is forwarded to nobody.
C18_UnregisteredDropped ==
    [][\A s \in Sockets : Unregistered(s) =>
          \A d \in DeviceIds \cup {None} :
             /\ \A st \in StatusUpdates \cup {"invalid"} :
                   handle_device_status(s, d, st) =>
                      /\ UNCHANGED <<registry, device_rows>>
                      /\ st \in StatusUpdates => forward_to_controllers(d) \ {s} = {}
             /\ \A e \in ForwardedEvents :
                   handle_device_event(s, e, d) => forward_to_controllers(d) \ {s} = {}
             /\ handle_device_heartbeat(s, d) => UNCHANGED registry]_vars

\* C19: the connections in room "controllers:<D>" are the connections of
\* the controller sessions that target D.
C19_RoomIsControllerSet ==
    \A d \in DeviceIds :
       ControllerRoomMembers(d) =
          {c.socket_id : c \in get_controllers_for_device(d)}

\* C20: a controller:command for an online device D sends one
\* controller:command event, to the handle of D's session and to no other
\* connection, and answers delivered; for an offline D the row is queued,
\* nothing is sent, and the answer is queued with the row's queue position.
C20_CommandRouting ==
    [][(cmd.pc = "push" /\ cmd'.pc = "idle") =>
          LET d == cmd.device_id
              answer == command_reply(cmd.is_online, cmd.id, d)
          IN /\ HasSession(d) =>
                   /\ Len(emitted') = Len(emitted) + 1
                   /\ SubSeq(emitted', 1, Len(emitted)) = emitted
                   /\ ImmediateEvent(emitted'[Len(emitted')])
                   /\ emitted'[Len(emitted')].to = {get_device(d).socket_id}
                   /\ commands[cmd.id].status = DELIVERED
                   /\ answer.status = "delivered" /\ answer.commandId = cmd.id
             /\ ~HasSession(d) =>
                   /\ emitted' = emitted
                   /\ commands[cmd.id].status = QUEUED
                   /\ answer.status = "queued" /\ answer.commandId = cmd.id
                   /\ answer.queuePosition = QueueRank(cmd.id)
                   /\ answer.queuePosition >= 1]_vars

\* Both routes were taken: the first command waits in the queue, the second
\* was sent at once to the one connection of its device.
C20_Witness ==
    /\ Quiescent
    /\ Len(commands) = 2
    /\ commands[1].status = QUEUED /\ commands[2].status = DELIVERED
    /\ Len(emitted) = 1
    /\ emitted[1].commandId = 2 /\ emitted[1].path = "immediate"
    /\ Cardinality(emitted[1].to) = 1
    /\ Cardinality(connected) = 2

\* The events a step appends to the log of controller:command events.
NewEvents == SubSeq(emitted', Len(emitted) + 1, Len(emitted'))

\* C23: from the moment register_device makes D online until the registration
\* handler has sent its last replayed command, no other command event is sent
\* to D: every command event for D in that window is one of the replay.
C23_ReplayBeforeOtherTraffic ==
    [][\A s \in Sockets : reg[s].pc # "idle" =>
          \A k \in 1..Len(NewEvents) :
             NewEvents[k].targetDeviceId = reg[s].device_id =>
                /\ NewEvents[k].path = "replay"
                /\ reg[s].pc = "emit"
                /\ NewEvents[k].commandId = reg[s].batch[reg[s].i]]_vars

\* C24: when D's session is gone at the push of a command that queue_command
\* created delivered, the handler sends no event and writes nothing: the row
\* stays as it is. No step puts a row back to queued, a delivered row changes
\* its status only in an acknowledgment, and a command event is only ever sent
\* for the command of a push that finds a session or for a row of a replay batch.
C24_VanishedSessionStaysDelivered ==
    [][/\ (cmd.pc = "push" /\ cmd'.pc = "idle" /\ cmd.is_online
                           /\ ~HasSession(cmd.device_id)) =>
             /\ emitted' = emitted
             /\ commands' = commands
             /\ commands[cmd.id].status # QUEUED
             /\ \A s \in Sockets :
                   \A k \in 1..Len(reg[s].batch) : reg[s].batch[k] # cmd.id
       /\ \A i \in 1..Len(commands) :
             /\ commands[i].status # QUEUED => commands'[i].status # QUEUED
             /\ (commands[i].status = DELIVERED /\ commands'[i].status # DELIVERED) =>
                   \E s \in Sockets, st \in AckStatuses, e \in AckErrors :
                      handle_command_ack(s, i, st, e)
       /\ \A k \in 1..Len(NewEvents) :
             \/ /\ cmd.pc = "push" /\ cmd.is_online /\ HasSession(cmd.device_id)
                /\ NewEvents[k].commandId = cmd.id
             \/ \E s \in Sockets :
                   /\ reg[s].pc = "emit"
                   /\ NewEvents[k].commandId = reg[s].batch[reg[s].i]]_vars

\* The handler has returned for a command that was created delivered (no
\* replay wrote delivered_at) and for which no event was sent: its device has
\* no session, and the row still reads delivered.
C24_Witness ==
    /\ cmd.pc = "idle"
    /\ \E i \in 1..Len(commands) :
          /\ commands[i].status = DELIVERED
          /\ commands[i].delivered_at = NULL
          /\ ~HasSession(commands[i].device_id)
          /\ \A k \in 1..Len(emitted) : emitted[k].commandId # i

\* C25: every controller:command event, on the immediate path and on the
\* replay path, is for a row that exists in the commands table and reads
\* delivered when the event is sent.
C25_RecordBeforePush ==
    [][\A k \in 1..Len(NewEvents) :
          /\ NewEvents[k].commandId \in 1..Len(commands)
          /\ commands[NewEvents[k].commandId].status = DELIVERED]_vars

\* C26: an acknowledgment with status "completed" leaves the command
\* completed, and one with status "failed" leaves it failed, with or without
\* an error string.
C26_AckOutcomeDecidesStatus ==
    [][\A x \in 1..Len(commands), e \in AckErrors :
          /\ CommandAck(x, "completed", e) => commands'[x].status = COMPLETED
          /\ CommandAck(x, "failed", e) => commands'[x].status = FAILED]_vars

\* C30: when a connection closes that is not the one D's session is bound to,
\* and the connection of D's session is open, D stays online on that
\* connection, D's row is not written, and no server:device_status is sent
\* for D.
C30_SupersededDisconnectKeepsSession ==
    [][\A s \in Sockets, d \in DeviceIds :
          (/\ disconnect(s)
           /\ HasSession(d)
           /\ get_device_socket_id(d) # s
           /\ get_device_socket_id(d) \in connected) =>
             /\ is_device_online(d)'
             /\ get_device_socket_id(d)' = get_device_socket_id(d)
             /\ device_rows'[d] = device_rows[d]
             /\ \A k \in 1..Len(disconnect_emits(s)) :
                   disconnect_emits(s)[k].deviceId # d]_vars

\* What a malformed event must leave alone: the registry, the rooms, the
\* durable store, the events sent and the handlers in flight.
MutableState ==
    <<registry, rooms, controller_rooms, device_rows, commands, emitted, handlers>>

\* C27: an event whose payload misses its identifying field, or a
\* controller:command with an action outside the vocabulary, changes nothing
\* in the registry or the durable store and sends nothing to another
\* connection; device:register, controller:register and controller:command
\* answer success = false. (A step that changes any of that state is the
\* step of no such event.)
C27_MalformedEventIgnored ==
    [][/\ device_register_reply(None, <<>>).success = FALSE
       /\ forward_to_controllers(None) = {}
       /\ \A c \in RelayControllers \cup {None}, d \in EventDevices :
             (c = None \/ d = None) => ~controller_register_valid(c, d)
       /\ \A d \in EventDevices, a \in EventActions :
             (d = None \/ a = None \/ a \notin CommandAction) =>
                ~controller_command_valid(d, a)
       /\ \/ UNCHANGED MutableState
          \/ \A s \in Sockets :
                /\ ~handle_device_register(s, None)
                /\ \A c \in RelayControllers \cup {None}, d \in EventDevices :
                      (c = None \/ d = None) => ~handle_controller_register(s, c, d)
                /\ \A d \in EventDevices, a \in EventActions :
                      (d = None \/ a = None \/ a \notin CommandAction) =>
                         ~handle_controller_command(d, a)
                /\ \A st \in AckStatuses, e \in AckErrors :
                      ~handle_command_ack(s, NULL, st, e)
                /\ \A st \in EventStatuses : ~handle_device_status(s, None, st)
                /\ \A e \in ForwardedEvents : ~handle_device_event(s, e, None)
                /\ ~handle_device_heartbeat(s, None)]_vars

\* Every kind of event can arrive, and there is state a malformed one could
\* damage: both connections are open, one holds the session of a device that
\* has sent a status, the other is a controller in that device's room, and
\* the commands table is full and holds a delivered row.
C27_Witness ==
    /\ Quiescent
    /\ connected = Sockets
    /\ \E d \in DeviceIds :
          /\ HasSession(d) /\ get_device(d).status # None
          /\ ControllerRoomMembers(d) # {}
          /\ get_device_socket_id(d) \notin ControllerRoomMembers(d)
    /\ Len(commands) = MaxCommands
    /\ \E i \in 1..Len(commands) : commands[i].status = DELIVERED

\* C21: POST /{device_id}/commands for an id with no row in the devices table
\* answers 404 DEVICE_NOT_FOUND and adds no command; for a device that has a
\* row it answers 202 with the id of the one row it adds, with status
\* delivered or queued as the row reads, and with a queue position exactly
\* when the status is queued.
C21_CreateCommandRoute ==
    [][\A d \in RouteDevices : devices_create_command(d) =>
          \A w \in BOOLEAN, x \in 1..(MaxCommands + 1) :
             (w = is_device_online(d) /\ x = Len(commands) + 1) =>
                LET answer == create_command_response(d, w, x)' IN
                /\ d \notin DOMAIN device_rows =>
                      /\ answer.status_code = 404
                      /\ answer.code = "DEVICE_NOT_FOUND"
                      /\ commands' = commands
                /\ d \in DOMAIN device_rows =>
                      /\ answer.status_code = 202
                      /\ Len(commands') = Len(commands) + 1
                      /\ SubSeq(commands', 1, Len(commands)) = commands
                      /\ answer.commandId = commands'[x].id
                      /\ commands'[x].device_id = d
                      /\ answer.status \in {"delivered", "queued"}
                      /\ answer.status = commands'[x].status
                      /\ (answer.queuePosition # NULL) <=> (answer.status = "queued")
                      /\ answer.status = "queued" =>
                            answer.queuePosition = QueueRank(x)']_vars

\* The route has answered queued with position 1 for one device and
\* delivered for the other, which has a session.
C21_Witness ==
    /\ Len(commands) = 2
    /\ commands[1].device_id # commands[2].device_id
    /\ commands[1].status = QUEUED /\ get_queue_position(1) = 1
    /\ commands[2].status = DELIVERED
    /\ HasSession(commands[2].device_id)

\* C28: the push service is called (send_silent_ping, send_command_notification)
\* only for a device that has no session in the registry at the call.
C28_PushOnlyWhenOffline ==
    [][\A c \in pushed' \ pushed : ~is_device_online(c.device_id)]_vars

\* The devices that registrations presenting a pairing code have created.
CreatedWith(pairing_code) ==
    {pair[r].device_id : r \in {q \in Requests : /\ pair[q].pc = "created"
                                                  /\ pair[q].pairing_code = pairing_code}}

\* C22: a pairing code is consumed by at most one registration: at most one
\* device is ever created per code, a registration that presents a used, an
\* expired or an unknown code is rejected with PAIRING_CODE_INVALID, and a
\* rejected registration creates no device.
C22_PairingCodeOneTime ==
    /\ \A k \in PairingCodes \cup {UnknownCode} : Cardinality(CreatedWith(k)) <= 1
    /\ \A r \in Requests :
          pair[r].pc = "PAIRING_CODE_INVALID" => pair[r].device_id = None

\* C29: a failure of the durable store inside an event handler never leaves
\* the handler as an exception: no invocation of disconnect, device:register,
\* device:status, device:command_ack or controller:command ends that way.
C29_StoreFaultsHandled == raised = {}

\* C31: every command recorded as delivered was sent: whichever entry point
\* created it (the controller:command handler or POST /{device_id}/commands),
\* a row in status delivered has a controller:command event carrying its id.
C31_DeliveredWasSent ==
    \A k \in 1..Len(commands) :
        commands[k].status = DELIVERED =>
            \E j \in 1..Len(emitted) : emitted[j].commandId = k

\* C32: no command is stranded in the queue of an online device: whenever no
\* handler invocation is in flight, a device the registry reports online has
\* no command in status pending or queued.
C32_NoStrandedCommand ==
    Quiescent =>
        \A k \in 1..Len(commands) :
            is_device_online(commands[k].device_id) =>
                commands[k].status \notin {PENDING, QUEUED}

\* C33: the durable connection status mirrors the registry: whenever no
\* handler invocation is in flight, a device's row says online exactly when
\* the registry holds a session for it.
C33_RowMirrorsRegistry ==
    Quiescent =>
        \A d \in DeviceIds :
            device_rows[d].status = ONLINE <=> is_device_online(d)

\* C34: a closed connection leaves nothing behind in the registry: after
\* disconnect for handle h, no device session, no controller session and no
\* reverse-index entry refers to h.
C34_ClosedLeavesNothing ==
    [][\A s \in Sockets : disconnect(s) =>
          /\ s \notin DOMAIN socket_to_device'
          /\ s \notin DOMAIN socket_to_controller'
          /\ \A d \in DOMAIN devices' : devices'[d].socket_id # s
          /\ \A c \in DOMAIN controllers' : controllers'[c].socket_id # s]_vars

\* C35: connection/identity binding: the open connection that is the session
\* of device D connected with the device token of subject D, and an open
\* connection that has a controller session connected with a controller token.
C35_IdentityBinding ==
    /\ \A d \in DOMAIN devices :
          devices[d].socket_id \in connected =>
              payload[devices[d].socket_id] = JWTPayload(d, "device")
    /\ \A c \in DOMAIN controllers :
          controllers[c].socket_id \in connected =>
              payload[controllers[c].socket_id].type = "controller"

\* C36: a controller:command event for device D, sent at once or replayed on
\* registration, reaches no connection other than the handle the registry
\* holds for D when it is sent.
C36_OnlyCurrentSession ==
    [][\A k \in 1..Len(NewEvents) :
          NewEvents[k].to \subseteq {get_device_socket_id(NewEvents[k].targetDeviceId)}]_vars

Replayed(k) ==
    /\ k <= Len(commands)
    /\ commands[k].delivered_at # NULL
    /\ \E j \in 1..Len(emitted) : emitted[j].commandId = k /\ emitted[j].path = "replay"

\* C38: every command recorded with status queued for device D is eventually
\* marked delivered and emitted to D once a device:register handler of D is
\* about to read the pending list (the record exists before the read) and the
\* store does not fail.
C38_QueuedEventuallyDelivered ==
    \A s \in Sockets, k \in 1..MaxCommands :
        (/\ reg[s].pc = "deliver"
         /\ k <= Len(commands)
         /\ commands[k].device_id = reg[s].device_id
         /\ commands[k].status = QUEUED) ~> Replayed(k)

\* C39: a device:command_ack changes the record of command X only if the
\* sending connection is registered as the device that owns X and X is in
\* status delivered or executing; any other acknowledgment changes no record.
C39_AckOwnDeliveredOnly ==
    [][\A s \in Sockets, x \in 1..MaxCommands, st \in AckStatuses, e \in AckErrors :
          (handle_command_ack(s, x, st, e) /\ commands' # commands) =>
              /\ s \in DOMAIN socket_to_device
              /\ x <= Len(commands)
              /\ commands[x].device_id = socket_to_device[s]
              /\ commands[x].status \in {DELIVERED, EXECUTING}]_vars

====
